---- MODULE Spec2Model ----
(***************************************************************************)
(* Model of ps1ify.py: the construction of PlayStation 1 style shader node *)
(* graphs on Blender materials.                                            *)
(*                                                                         *)
(* A material is a record holding its name, its node tree (a sequence of   *)
(* nodes and a set of links) and its display settings.  Nodes are objects: *)
(* each one carries a uid that the host never reuses, and a link names its *)
(* two end nodes by uid and its two sockets by key.  Socket keys are the   *)
(* strings the source indexes with ('Color', 'Alpha') or the decimal       *)
(* numeral of the index (inputs[6] is "6").  Float values are fixed-point  *)
(* integers in units of 10^-5, and a default_value is a sequence of them.  *)
(***************************************************************************)
EXTENDS Integers, Sequences, FiniteSets, TLC

VARIABLES
    materials,   \* bpy.data.materials: material id -> material record
    objects,     \* bpy.data.objects: sequence of object records
    scene,       \* bpy.context.scene colour management settings
    pc,          \* position of the script: "idle", "loop", "done", "error", "api"
    obs,         \* the list the main loop iterates over
    i,           \* index of the current object in obs
    j,           \* index of the current material slot of the current object
    before,      \* the materials as they were when the current run started
    applied,     \* material id -> number of ps1ify_material calls in this run
    runs,        \* number of runs of the script started so far
    last,        \* the arguments and outcome of the most recent function call
    ncalls,      \* number of direct function calls made so far
    raised       \* TRUE once a call has raised UnboundLocalError

vars == <<materials, objects, scene, pc, obs, i, j, before, applied, runs,
          last, ncalls, raised>>

----------------------------------------------------------------------------
(* Bounds of the model. *)

MaxRuns == 2

MaxCalls == 3

----------------------------------------------------------------------------
(* Values of the source. *)

None == "<None>"

\* 4.63262, the per-channel factor applied to the vertex colour.
Vec2x == 463262

\* 0.5, the factor of semi-transparency mode 0.
AlphaHalf == 50000

\* 1, the Fac of the colour mix node.
Fac1 == 100000

Truthy(x) == x # None

----------------------------------------------------------------------------
(* Strings as sequences of characters: str.lower and the `in` operator.    *)

UpperChars == <<"A","B","C","D","E","F","G","H","I","J","K","L","M",
                "N","O","P","Q","R","S","T","U","V","W","X","Y","Z">>

LowerChars == <<"a","b","c","d","e","f","g","h","i","j","k","l","m",
                "n","o","p","q","r","s","t","u","v","w","x","y","z">>

LowerChar(c) ==
    IF \E k \in 1..Len(UpperChars) : UpperChars[k] = c
    THEN LowerChars[CHOOSE k \in 1..Len(UpperChars) : UpperChars[k] = c]
    ELSE c

Lower(s) == [k \in 1..Len(s) |-> LowerChar(s[k])]

\* needle in hay, scanning the start positions from the left as str.__contains__
RECURSIVE ContainsFrom(_, _, _)
ContainsFrom(hay, needle, k) ==
    IF k + Len(needle) - 1 > Len(hay) THEN FALSE
    ELSE IF SubSeq(hay, k, k + Len(needle) - 1) = needle THEN TRUE
    ELSE ContainsFrom(hay, needle, k + 1)

Contains(hay, needle) == ContainsFrom(hay, needle, 1)

Str_transparent == <<"t","r","a","n","s","p","a","r","e","n","t">>

IsSemitransparent_NoLower(name) == Contains(name, Str_transparent)

\* semitransparent = 'transparent' in material.name.lower()
IsSemitransparent(name) == Contains(Lower(name), Str_transparent)

----------------------------------------------------------------------------
(* The host's node objects. *)

\* node.type of a node created from a bl_idname
NodeType(bl_idname) ==
    CASE bl_idname = "ShaderNodeTexImage"        -> "TEX_IMAGE"
      [] bl_idname = "ShaderNodeOutputMaterial"  -> "OUTPUT_MATERIAL"
      [] bl_idname = "ShaderNodeVertexColor"     -> "VERTEX_COLOR"
      [] bl_idname = "ShaderNodeVectorMath"      -> "VECT_MATH"
      [] bl_idname = "ShaderNodeMix"             -> "MIX"
      [] bl_idname = "ShaderNodeMixShader"       -> "MIX_SHADER"
      [] bl_idname = "ShaderNodeBsdfTransparent" -> "BSDF_TRANSPARENT"
      [] bl_idname = "ShaderNodeMath"            -> "MATH"
      [] bl_idname = "ShaderNodeBsdfPrincipled"  -> "BSDF_PRINCIPLED"

\* A node as nodes.new(bl_idname) returns it, with the host's initial settings.
FreshNode(uid, bl_idname) ==
    [ uid           |-> uid,
      bl_idname     |-> bl_idname,
      type          |-> NodeType(bl_idname),
      image         |-> None,
      interpolation |-> "Linear",
      layer_name    |-> "",
      label         |-> "",
      operation     |-> "ADD",
      data_type     |-> "FLOAT",
      blend_type    |-> "MIX",
      clamp_result  |-> FALSE,
      defaults      |-> {},
      location      |-> <<0, 0>> ]

NodeUids(m) == { m.nodes[k].uid : k \in 1..Len(m.nodes) }

NodeSet(m) == { m.nodes[k] : k \in 1..Len(m.nodes) }

NodeOf(m, uid) == CHOOSE n \in NodeSet(m) : n.uid = uid

----------------------------------------------------------------------------
(* The statements of setup_ps1_material.  An environment e holds the       *)
(* material being edited, the local variables bound so far (name -> uid of *)
(* the node), the colour socket and whether a read of an unbound local has *)
(* raised.  Once raised, the rest of the call does not execute.            *)

NewEnv(material) ==
    [ m |-> material, locals |-> <<>>, color_socket |-> <<>>, raised |-> FALSE ]

Bound(e, var) == var \in DOMAIN e.locals

Raise(e) == [e EXCEPT !.raised = TRUE]

\* var = nodes.new(bl_idname)
New(e, var, bl_idname) ==
    IF e.raised THEN e
    ELSE [e EXCEPT
            !.m.nodes    = Append(@, FreshNode(e.m.next_uid, bl_idname)),
            !.m.next_uid = @ + 1,
            !.locals     = [v \in DOMAIN e.locals \cup {var} |->
                               IF v = var THEN e.m.next_uid ELSE e.locals[v]]]

\* var.attr = value
SetAttr(e, var, attr, value) ==
    IF e.raised THEN e
    ELSE IF ~Bound(e, var) THEN Raise(e)
    ELSE [e EXCEPT !.m.nodes =
            [k \in 1..Len(@) |->
                IF @[k].uid = e.locals[var]
                THEN [@[k] EXCEPT ![attr] = value]
                ELSE @[k]]]

\* var.inputs[input].default_value = value
SetDefault(e, var, input, value) ==
    IF e.raised THEN e
    ELSE IF ~Bound(e, var) THEN Raise(e)
    ELSE [e EXCEPT !.m.nodes =
            [k \in 1..Len(@) |->
                IF @[k].uid = e.locals[var]
                THEN [@[k] EXCEPT !.defaults =
                        {d \in @ : d.input # input}
                            \cup {[input |-> input, value |-> value]}]
                ELSE @[k]]]

\* links.new(from, to): an input socket holds one link, a new one replaces it
AddLink(m, from_node, from_socket, to_node, to_socket) ==
    [m EXCEPT !.links =
        {l \in @ : ~(l.to_node = to_node /\ l.to_socket = to_socket)}
            \cup {[from_node |-> from_node, from_socket |-> from_socket,
                   to_node |-> to_node, to_socket |-> to_socket]}]

\* links.new(fvar.outputs[fsock], tvar.inputs[tsock])
Link(e, fvar, fsock, tvar, tsock) ==
    IF e.raised THEN e
    ELSE IF ~Bound(e, fvar) \/ ~Bound(e, tvar) THEN Raise(e)
    ELSE [e EXCEPT !.m = AddLink(@, e.locals[fvar], fsock, e.locals[tvar], tsock)]

\* color_socket = var.outputs[sock]
SetColorSocket(e, var, sock) ==
    IF e.raised THEN e
    ELSE IF ~Bound(e, var) THEN Raise(e)
    ELSE [e EXCEPT !.color_socket = <<[node |-> e.locals[var], socket |-> sock]>>]

\* links.new(color_socket, tvar.inputs[tsock])
LinkColorSocket(e, tvar, tsock) ==
    IF e.raised THEN e
    ELSE IF e.color_socket = <<>> \/ ~Bound(e, tvar) THEN Raise(e)
    ELSE [e EXCEPT !.m = AddLink(@, e.color_socket[1].node,
                                 e.color_socket[1].socket, e.locals[tvar], tsock)]

----------------------------------------------------------------------------
(* setup_ps1_material *)

EffectiveTextureAlpha_Unforced(image, use_texture_alpha) == use_texture_alpha

\* if not image: use_texture_alpha = False
EffectiveTextureAlpha(image, use_texture_alpha) ==
    IF ~Truthy(image) THEN FALSE ELSE use_texture_alpha

\* use_color = vertex_color is not None
UseColor(vertex_color) == vertex_color # None

IsNoOp_Never(image, use_color) == FALSE

\* if not image and not use_color: return
IsNoOp(image, use_color) == ~Truthy(image) /\ ~use_color

ClearNodes_Keep(e) == e

\* nodes.clear(): every node goes, and with the nodes their links
ClearNodes(e) == [e EXCEPT !.m.nodes = <<>>, !.m.links = {}]

\* material.use_nodes = True; the host gives a material without a node tree one
UseNodes(material) == [material EXCEPT !.use_nodes = TRUE, !.has_tree = TRUE]

CreateSourceNodes_NoImage(e, image, vertex_color, use_color) ==
    LET a == IF use_color
             THEN SetAttr(New(e, "node_color", "ShaderNodeVertexColor"),
                          "node_color", "layer_name", vertex_color)
             ELSE e
    IN IF Truthy(image)
       THEN SetAttr(New(a, "node_img", "ShaderNodeTexImage"),
                    "node_img", "interpolation", "Closest")
       ELSE a

\* the vertex colour node and the image node
CreateSourceNodes(e, image, vertex_color, use_color) ==
    LET a == IF use_color
             THEN SetAttr(New(e, "node_color", "ShaderNodeVertexColor"),
                          "node_color", "layer_name", vertex_color)
             ELSE e
    IN IF Truthy(image)
       THEN SetAttr(SetAttr(New(a, "node_img", "ShaderNodeTexImage"),
                            "node_img", "image", image),
                    "node_img", "interpolation", "Closest")
       ELSE a

\* the else branch: outputColor = 4.6 * vertexColor * textureColor
MultiplyBranch(e) ==
    LET s1  == New(e, "node_2x", "ShaderNodeVectorMath")
        s2  == SetAttr(s1, "node_2x", "label", "Multiply x 2")
        s3  == SetAttr(s2, "node_2x", "operation", "MULTIPLY")
        s4  == SetDefault(s3, "node_2x", "1", <<Vec2x, Vec2x, Vec2x>>)
        s5  == Link(s4, "node_color", "Color", "node_2x", "0")
        s6  == New(s5, "node_mul", "ShaderNodeMix")
        s7  == SetAttr(s6, "node_mul", "data_type", "RGBA")
        s8  == SetAttr(s7, "node_mul", "blend_type", "MULTIPLY")
        s9  == SetAttr(s8, "node_mul", "clamp_result", TRUE)
        s10 == SetDefault(s9, "node_mul", "0", <<Fac1>>)
        s11 == Link(s10, "node_img", "Color", "node_mul", "6")
        s12 == Link(s11, "node_2x", "0", "node_mul", "7")
        s13 == SetColorSocket(s12, "node_mul", "2")
        s14 == SetAttr(s13, "node_mul", "location", <<-300, 40>>)
        s15 == SetAttr(s14, "node_img", "location", <<-700, 200>>)
        s16 == SetAttr(s15, "node_2x", "location", <<-600, -200>>)
    IN SetAttr(s16, "node_color", "location", <<-800, -200>>)

ChooseColorSocket_ImageFirst(e, image, use_color) ==
    IF Truthy(image)
    THEN SetAttr(SetColorSocket(e, "node_img", "Color"),
                 "node_img", "location", <<-400, 100>>)
    ELSE SetAttr(SetColorSocket(e, "node_color", "Color"),
                 "node_color", "location", <<-300, 80>>)

\* the choice of color_socket
ChooseColorSocket(e, image, use_color) ==
    IF Truthy(image) /\ ~use_color
    THEN SetAttr(SetColorSocket(e, "node_img", "Color"),
                 "node_img", "location", <<-400, 100>>)
    ELSE IF ~Truthy(image) /\ use_color
    THEN SetAttr(SetColorSocket(e, "node_color", "Color"),
                 "node_color", "location", <<-300, 80>>)
    ELSE MultiplyBranch(e)

AlphaNodes_Opaque(e, use_alpha) ==
    SetAttr(LinkColorSocket(e, "node_out", "0"), "node_out", "location", <<20, 20>>)

\* opaque: colour straight to the output; otherwise through a mix shader
AlphaNodes(e, use_alpha) ==
    IF ~use_alpha
    THEN SetAttr(LinkColorSocket(e, "node_out", "0"),
                 "node_out", "location", <<20, 20>>)
    ELSE LET s1 == New(e, "node_alpha", "ShaderNodeMixShader")
             s2 == New(s1, "node_transp", "ShaderNodeBsdfTransparent")
             s3 == Link(s2, "node_transp", "0", "node_alpha", "1")
             s4 == Link(s3, "node_alpha", "0", "node_out", "0")
             s5 == LinkColorSocket(s4, "node_alpha", "2")
             s6 == SetAttr(s5, "node_alpha", "location", <<20, 200>>)
             s7 == SetAttr(s6, "node_transp", "location", <<-300, 400>>)
         IN SetAttr(s7, "node_out", "location", <<250, 260>>)

AlphaFactor_NoHalf(e, use_texture_alpha, use_semitransparent_mode0, use_color) ==
    IF use_texture_alpha
    THEN Link(e, "node_img", "Alpha", "node_alpha", "0")
    ELSE IF use_semitransparent_mode0
    THEN SetDefault(e, "node_alpha", "0", <<AlphaHalf>>)
    ELSE e

\* the factor of the mix shader
AlphaFactor(e, use_texture_alpha, use_semitransparent_mode0, use_color) ==
    IF use_texture_alpha /\ ~use_semitransparent_mode0
    THEN Link(e, "node_img", "Alpha", "node_alpha", "0")
    ELSE IF ~use_texture_alpha /\ use_semitransparent_mode0
    THEN SetDefault(e, "node_alpha", "0", <<AlphaHalf>>)
    ELSE IF use_texture_alpha /\ use_semitransparent_mode0
    THEN LET s1 == New(e, "node_amul", "ShaderNodeMath")
             s2 == SetAttr(s1, "node_amul", "operation", "MULTIPLY")
             s3 == Link(s2, "node_img", "Alpha", "node_amul", "0")
             s4 == SetDefault(s3, "node_amul", "1", <<AlphaHalf>>)
             s5 == Link(s4, "node_amul", "0", "node_alpha", "0")
             s6 == SetAttr(s5, "node_amul", "location", <<-300, 250>>)
         IN IF ~use_color
            THEN SetAttr(s6, "node_img", "location", <<-650, 0>>)
            ELSE s6
    ELSE e

\* The call: the material as the call leaves it, whether it raised, and
\* whether it took the early return.
setup_ps1_material(material, image, vertex_color, use_texture_alpha_arg, use_semitransparent_mode0) ==
    LET use_texture_alpha == EffectiveTextureAlpha(image, use_texture_alpha_arg)
        use_alpha == use_texture_alpha \/ use_semitransparent_mode0
        use_color == UseColor(vertex_color)
    IN IF IsNoOp(image, use_color)
       THEN [m |-> material, raised |-> FALSE, noop |-> TRUE]
       ELSE LET e0 == NewEnv(UseNodes(material))
                e1 == New(ClearNodes(e0), "node_out", "ShaderNodeOutputMaterial")
                e2 == CreateSourceNodes(e1, image, vertex_color, use_color)
                e3 == ChooseColorSocket(e2, image, use_color)
                e4 == AlphaNodes(e3, use_alpha)
                e5 == AlphaFactor(e4, use_texture_alpha,
                                  use_semitransparent_mode0, use_color)
            IN [m |-> e5.m, raised |-> e5.raised, noop |-> FALSE]

----------------------------------------------------------------------------
(* ps1ify_material *)

\* nodes = [] if not material.node_tree else material.node_tree.nodes
TreeNodes(material) == IF ~material.has_tree THEN <<>> ELSE material.nodes

IsImgNode(n) == n.type = "TEX_IMAGE" /\ Truthy(n.image)

\* image = img_nodes[0].image if img_nodes else None
FindImage(material) ==
    LET img_nodes == SelectSeq(TreeNodes(material), IsImgNode)
    IN IF img_nodes # <<>> THEN img_nodes[1].image ELSE None

\* vertex_color = '' if mesh.color_attributes else None
VertexColorOf(mesh) == IF mesh.color_attributes # {} THEN "" ELSE None

BlendMethodFor(semitransparent) == IF ~semitransparent THEN "HASHED" ELSE "BLEND"

ps1ify_material(mesh, material) ==
    LET image == FindImage(material)
        vertex_color == VertexColorOf(mesh)
        semitransparent == IsSemitransparent(material.name)
        r == setup_ps1_material(material, image, vertex_color, TRUE, semitransparent)
    IN IF r.raised THEN r
       ELSE [r EXCEPT !.m.use_backface_culling = FALSE,
                      !.m.blend_method = BlendMethodFor(semitransparent)]

----------------------------------------------------------------------------
(* The scene the script runs in. *)

MaterialIds == {"m1", "m2"}

Name_Body == <<"B","o","d","y">>

Name_SemiTransparent ==
    <<"S","e","m","i","T","r","a","n","s","p","a","r","e","n","t">>

Name_TRANSPARENT_01 ==
    <<"T","R","A","N","S","P","A","R","E","N","T","_","0","1">>

Name_transparen_t == <<"t","r","a","n","s","p","a","r","e","n","_","t">>

\* A node of a graph that exists before the script runs.
OldNode(uid, bl_idname, image) == [FreshNode(uid, bl_idname) EXCEPT !.image = image]

OldLink(from_node, from_socket, to_node, to_socket) ==
    [from_node |-> from_node, from_socket |-> from_socket,
     to_node |-> to_node, to_socket |-> to_socket]

\* The materials a scene may hold when the script starts: without a node
\* tree; with the host's default graph; with imported graphs that sample
\* one image, or several, the first image node of one holding no image.
InitialMaterials ==
    { [ name |-> Name_Body, has_tree |-> FALSE, use_nodes |-> FALSE,
        nodes |-> <<>>, links |-> {}, next_uid |-> 1,
        blend_method |-> "OPAQUE", use_backface_culling |-> TRUE ],
      [ name |-> Name_TRANSPARENT_01, has_tree |-> TRUE, use_nodes |-> TRUE,
        nodes |-> << OldNode(1, "ShaderNodeBsdfPrincipled", None),
                     OldNode(2, "ShaderNodeOutputMaterial", None) >>,
        links |-> { OldLink(1, "0", 2, "0") }, next_uid |-> 3,
        blend_method |-> "OPAQUE", use_backface_culling |-> FALSE ],
      [ name |-> Name_SemiTransparent, has_tree |-> TRUE, use_nodes |-> TRUE,
        nodes |-> << OldNode(1, "ShaderNodeTexImage", "imgA"),
                     OldNode(2, "ShaderNodeBsdfPrincipled", None),
                     OldNode(3, "ShaderNodeOutputMaterial", None) >>,
        links |-> { OldLink(1, "Color", 2, "0"), OldLink(2, "0", 3, "0") },
        next_uid |-> 4,
        blend_method |-> "HASHED", use_backface_culling |-> TRUE ],
      [ name |-> Name_transparen_t, has_tree |-> TRUE, use_nodes |-> TRUE,
        nodes |-> << OldNode(1, "ShaderNodeTexImage", None),
                     OldNode(2, "ShaderNodeOutputMaterial", None),
                     OldNode(3, "ShaderNodeTexImage", "imgB"),
                     OldNode(4, "ShaderNodeTexImage", "imgA"),
                     OldNode(5, "ShaderNodeBsdfPrincipled", None) >>,
        links |-> { OldLink(3, "Color", 5, "0"), OldLink(5, "0", 2, "0") },
        next_uid |-> 6,
        blend_method |-> "BLEND", use_backface_culling |-> TRUE ],
      [ name |-> Name_Body, has_tree |-> TRUE, use_nodes |-> FALSE,
        nodes |-> << OldNode(1, "ShaderNodeTexImage", "imgB"),
                     OldNode(2, "ShaderNodeOutputMaterial", None) >>,
        links |-> { OldLink(1, "Color", 2, "0") }, next_uid |-> 3,
        blend_method |-> "OPAQUE", use_backface_culling |-> FALSE ] }

\* ob.data of a mesh object: its colour attributes and its material slots
\* (None is an empty slot).  Objects of other types carry materials too.
ObjectData ==
    { [ type |-> "MESH",  color_attributes |-> {"Col"}, slots |-> <<"m1">> ],
      [ type |-> "MESH",  color_attributes |-> {},      slots |-> <<"m1", None, "m2">> ],
      [ type |-> "MESH",  color_attributes |-> {"Col"}, slots |-> <<"m2", "m2">> ],
      [ type |-> "MESH",  color_attributes |-> {},      slots |-> <<"m2">> ],
      [ type |-> "CURVE", color_attributes |-> {},      slots |-> <<"m2">> ] }

Meshes == { d \in ObjectData : d.type = "MESH" }

InitialScene ==
    [ display_device |-> "sRGB", view_transform |-> "Filmic",
      sequencer_colorspace |-> "Filmic" ]

NoCall ==
    [ kind |-> "none", mat |-> None, color_attributes |-> {}, image |-> None,
      vertex_color |-> None, use_texture_alpha |-> FALSE,
      use_semitransparent_mode0 |-> FALSE, noop |-> FALSE, repeat |-> FALSE ]

\* bpy.context.selected_objects, in the order of bpy.data.objects
SelectedObjects == SelectSeq(objects, LAMBDA ob : ob.selected)

\* obs = bpy.context.selected_objects or bpy.data.objects
Obs == IF SelectedObjects # <<>> THEN SelectedObjects ELSE objects

IsMesh_Any(ob) == TRUE

\* the objects the loop does not skip: if ob.type != 'MESH': continue
IsMesh(ob) == ob.type = "MESH"

\* set_color_management
set_color_management(sc) ==
    [sc EXCEPT !.display_device = "sRGB", !.view_transform = "Standard",
               !.sequencer_colorspace = "sRGB"]

----------------------------------------------------------------------------
(* The script: the body of `if __name__ == '__main__'`. *)

Init ==
    /\ materials \in [MaterialIds -> InitialMaterials]
    /\ \E d1 \in ObjectData, d2 \in ObjectData, s1 \in BOOLEAN, s2 \in BOOLEAN :
          objects = << [name |-> "ob1", selected |-> s1, data |-> d1],
                       [name |-> "ob2", selected |-> s2, data |-> d2] >>
    /\ scene = InitialScene
    /\ pc = "idle"
    /\ obs = <<>>
    /\ i = 1
    /\ j = 1
    /\ before = materials
    /\ applied = [m \in MaterialIds |-> 0]
    /\ runs = 0
    /\ last = NoCall
    /\ ncalls = 0
    /\ raised = FALSE

\* The user runs the script (again).
Start ==
    /\ pc \in {"idle", "done"}
    /\ runs < MaxRuns
    /\ runs' = runs + 1
    /\ obs' = Obs
    /\ i' = 1
    /\ j' = 1
    /\ before' = materials
    /\ applied' = [m \in MaterialIds |-> 0]
    /\ pc' = "loop"
    /\ UNCHANGED <<materials, objects, scene, last, ncalls, raised>>

\* if ob.type != 'MESH': continue
SkipObject ==
    /\ pc = "loop"
    /\ i <= Len(obs)
    /\ ~IsMesh(obs[i].data)
    /\ i' = i + 1
    /\ j' = 1
    /\ UNCHANGED <<materials, objects, scene, pc, obs, before, applied, runs,
                   last, ncalls, raised>>

\* if not mat: continue
SkipSlot ==
    /\ pc = "loop"
    /\ i <= Len(obs)
    /\ IsMesh(obs[i].data)
    /\ j <= Len(obs[i].data.slots)
    /\ ~Truthy(obs[i].data.slots[j])
    /\ j' = j + 1
    /\ UNCHANGED <<materials, objects, scene, pc, obs, i, before, applied, runs,
                   last, ncalls, raised>>

\* ps1ify_material(ob.data, mat)
Ps1ifySlot ==
    /\ pc = "loop"
    /\ i <= Len(obs)
    /\ IsMesh(obs[i].data)
    /\ j <= Len(obs[i].data.slots)
    /\ Truthy(obs[i].data.slots[j])
    /\ LET mat == obs[i].data.slots[j]
           r == ps1ify_material(obs[i].data, materials[mat])
       IN /\ materials' = [materials EXCEPT ![mat] = r.m]
          /\ applied' = [applied EXCEPT ![mat] = @ + 1]
          /\ raised' = r.raised
          /\ pc' = IF r.raised THEN "error" ELSE "loop"
          /\ last' = [ kind |-> "ps1ify", mat |-> mat,
                       color_attributes |-> obs[i].data.color_attributes,
                       image |-> FindImage(materials[mat]),
                       vertex_color |-> VertexColorOf(obs[i].data),
                       use_texture_alpha |-> TRUE,
                       use_semitransparent_mode0 |->
                           IsSemitransparent(materials[mat].name),
                       noop |-> r.noop,
                       repeat |-> /\ last.kind = "ps1ify"
                                  /\ last.mat = mat
                                  /\ last.color_attributes
                                        = obs[i].data.color_attributes ]
    /\ j' = j + 1
    /\ UNCHANGED <<objects, scene, obs, i, before, runs, ncalls>>

\* the slots of the current mesh are exhausted
NextObject ==
    /\ pc = "loop"
    /\ i <= Len(obs)
    /\ IsMesh(obs[i].data)
    /\ j > Len(obs[i].data.slots)
    /\ i' = i + 1
    /\ j' = 1
    /\ UNCHANGED <<materials, objects, scene, pc, obs, before, applied, runs,
                   last, ncalls, raised>>

\* the objects are exhausted: set_color_management()
Finish ==
    /\ pc = "loop"
    /\ i > Len(obs)
    /\ scene' = set_color_management(scene)
    /\ pc' = "done"
    /\ UNCHANGED <<materials, objects, obs, i, j, before, applied, runs,
                   last, ncalls, raised>>

Next == Start \/ SkipObject \/ SkipSlot \/ Ps1ifySlot \/ NextObject \/ Finish

Spec == Init /\ [][Next]_vars

----------------------------------------------------------------------------
(* The two functions called directly, with every combination of arguments. *)

ApiMaterial == "m1"

ApiImages == {None, "imgA"}

ApiVertexColors == {None, "", "Col"}

InitApi ==
    /\ \E k \in InitialMaterials : materials = [m \in MaterialIds |-> k]
    /\ objects = <<>>
    /\ scene = InitialScene
    /\ pc = "api"
    /\ obs = <<>>
    /\ i = 1
    /\ j = 1
    /\ before = materials
    /\ applied = [m \in MaterialIds |-> 0]
    /\ runs = 0
    /\ last = NoCall
    /\ ncalls = 0
    /\ raised = FALSE

\* setup_ps1_material(material, image, vertex_color, use_texture_alpha,
\*                    use_semitransparent_mode0)
CallSetup ==
    /\ pc = "api"
    /\ ncalls < MaxCalls
    /\ \E image \in ApiImages, vertex_color \in ApiVertexColors,
          use_texture_alpha \in BOOLEAN, use_semitransparent_mode0 \in BOOLEAN :
          LET r == setup_ps1_material(materials[ApiMaterial], image, vertex_color,
                                      use_texture_alpha, use_semitransparent_mode0)
          IN /\ materials' = [materials EXCEPT ![ApiMaterial] = r.m]
             /\ raised' = r.raised
             /\ pc' = IF r.raised THEN "error" ELSE "api"
             /\ last' = [ kind |-> "setup", mat |-> ApiMaterial,
                          color_attributes |-> {}, image |-> image,
                          vertex_color |-> vertex_color,
                          use_texture_alpha |-> use_texture_alpha,
                          use_semitransparent_mode0 |-> use_semitransparent_mode0,
                          noop |-> r.noop, repeat |-> FALSE ]
    /\ ncalls' = ncalls + 1
    /\ UNCHANGED <<objects, scene, obs, i, j, before, applied, runs>>

\* ps1ify_material(mesh, material)
CallPs1ify ==
    /\ pc = "api"
    /\ ncalls < MaxCalls
    /\ \E mesh \in Meshes :
          LET r == ps1ify_material(mesh, materials[ApiMaterial])
          IN /\ materials' = [materials EXCEPT ![ApiMaterial] = r.m]
             /\ raised' = r.raised
             /\ pc' = IF r.raised THEN "error" ELSE "api"
             /\ last' = [ kind |-> "ps1ify", mat |-> ApiMaterial,
                          color_attributes |-> mesh.color_attributes,
                          image |-> FindImage(materials[ApiMaterial]),
                          vertex_color |-> VertexColorOf(mesh),
                          use_texture_alpha |-> TRUE,
                          use_semitransparent_mode0 |->
                              IsSemitransparent(materials[ApiMaterial].name),
                          noop |-> r.noop,
                          repeat |-> /\ last.kind = "ps1ify"
                                     /\ last.mat = ApiMaterial
                                     /\ last.color_attributes = mesh.color_attributes ]
    /\ ncalls' = ncalls + 1
    /\ UNCHANGED <<objects, scene, obs, i, j, before, applied, runs>>

NextApi == CallSetup \/ CallPs1ify

SpecApi == InitApi /\ [][NextApi]_vars

----------------------------------------------------------------------------
(* Reading a node graph. *)

NodesOfType(m, t) == { n \in NodeSet(m) : n.type = t }

HasLink(m, from_node, from_socket, to_node, to_socket) ==
    OldLink(from_node, from_socket, to_node, to_socket) \in m.links

\* the output ends of the links into an input socket
SourcesOf(m, to_node, to_socket) ==
    { [node |-> l.from_node, socket |-> l.from_socket] :
        l \in { x \in m.links : x.to_node = to_node /\ x.to_socket = to_socket } }

HasDefault(n, input, value) == [input |-> input, value |-> value] \in n.defaults

\* The socket that carries the colour towards the output: what is linked to
\* input 2 of the mix shader when there is one, and to the surface input of
\* the output node otherwise.
ColorSources(m) ==
    IF NodesOfType(m, "MIX_SHADER") # {}
    THEN UNION { SourcesOf(m, ms.uid, "2") : ms \in NodesOfType(m, "MIX_SHADER") }
    ELSE UNION { SourcesOf(m, out.uid, "0") : out \in NodesOfType(m, "OUTPUT_MATERIAL") }

\* the material the most recent call worked on
LastMaterial == materials[last.mat]

LastCalled == last.kind # "none"

----------------------------------------------------------------------------
(* C1 *)

NoImageNoColorCall ==
    /\ last'.kind = "ps1ify"
    /\ last'.image = None
    /\ last'.vertex_color = None

\* C1 as stated: a ps1ify_material call on a material without an image
\* texture, for a mesh without colour attributes, leaves the whole material
\* as it was: node graph, use_nodes, blend_method and use_backface_culling.
C1_NoOpLeavesMaterialUnmodified ==
    [][NoImageNoColorCall => materials'[last'.mat] = materials[last'.mat]]_vars

\* C1 (amended): such a call leaves the node graph and use_nodes as they
\* were, and still sets use_backface_culling to False and blend_method to
\* 'BLEND' for a semi-transparent name and to 'HASHED' otherwise.
C1_NoOpLeavesGraphSetsDisplay ==
    [][NoImageNoColorCall =>
        LET a == materials'[last'.mat]
            b == materials[last'.mat]
        IN /\ a.nodes = b.nodes
           /\ a.links = b.links
           /\ a.use_nodes = b.use_nodes
           /\ a.has_tree = b.has_tree
           /\ a.use_backface_culling = FALSE
           /\ a.blend_method =
                IF last'.use_semitransparent_mode0 THEN "BLEND" ELSE "HASHED"]_vars

\* a call of the no image, no colour case has happened on a material that
\* has a node graph
C1_Witness ==
    /\ last.kind = "ps1ify"
    /\ last.image = None
    /\ last.vertex_color = None
    /\ last.noop
    /\ LastMaterial.nodes # <<>>

----------------------------------------------------------------------------
(* C2 *)

ImageNoColorCall ==
    /\ last.kind = "ps1ify"
    /\ last.image # None
    /\ last.vertex_color = None

\* C2 as stated: after ps1ify_material on a material with an image texture
\* and a mesh without vertex colours, the graph has exactly one image node
\* and its Color output is linked directly to the output's surface input.
C2_ImageWiredDirectlyToOutput ==
    ImageNoColorCall =>
        /\ Cardinality(NodesOfType(LastMaterial, "TEX_IMAGE")) = 1
        /\ \A img \in NodesOfType(LastMaterial, "TEX_IMAGE") :
             \E out \in NodesOfType(LastMaterial, "OUTPUT_MATERIAL") :
                HasLink(LastMaterial, img.uid, "Color", out.uid, "0")

\* C2 (amended): the graph has exactly one image node; its Color output is
\* linked to input 2 of a mix shader whose input 1 is a transparent BSDF and
\* whose output is linked to the output's surface input; the image node is
\* not linked to the output node.
C2_ImageWiredThroughMixShader ==
    ImageNoColorCall =>
        /\ Cardinality(NodesOfType(LastMaterial, "TEX_IMAGE")) = 1
        /\ \A img \in NodesOfType(LastMaterial, "TEX_IMAGE") :
             /\ img.image = last.image
             /\ \E out \in NodesOfType(LastMaterial, "OUTPUT_MATERIAL"),
                   ms \in NodesOfType(LastMaterial, "MIX_SHADER"),
                   tr \in NodesOfType(LastMaterial, "BSDF_TRANSPARENT") :
                   /\ HasLink(LastMaterial, img.uid, "Color", ms.uid, "2")
                   /\ HasLink(LastMaterial, tr.uid, "0", ms.uid, "1")
                   /\ HasLink(LastMaterial, ms.uid, "0", out.uid, "0")
             /\ \A l \in LastMaterial.links :
                   l.from_node = img.uid =>
                      NodeOf(LastMaterial, l.to_node).type # "OUTPUT_MATERIAL"

C2_Witness ==
    /\ ImageNoColorCall
    /\ ~last.noop
    /\ ~last.use_semitransparent_mode0

----------------------------------------------------------------------------
(* C3 *)

\* C3: after a call that is not the no-op case the colour source is the
\* image node's Color when there is an image and no vertex colour, the
\* vertex colour node's Color when there is a vertex colour and no image,
\* and otherwise output 2 of a clamped MULTIPLY mix whose Color A (input 6)
\* is the image Color and whose Color B (input 7) is a vector MULTIPLY of
\* the vertex colour by 4.63262 per channel; use_texture_alpha and
\* use_semitransparent_mode0 have no part in the choice.
C3_ColorSourceByImageAndColor ==
    (LastCalled /\ ~last.noop) =>
        LET m == LastMaterial
            imgs == NodesOfType(m, "TEX_IMAGE")
            cols == NodesOfType(m, "VERTEX_COLOR")
            muls == NodesOfType(m, "MIX")
            x2s  == NodesOfType(m, "VECT_MATH")
        IN IF last.image # None /\ last.vertex_color = None
           THEN /\ Cardinality(imgs) = 1
                /\ ColorSources(m) = { [node |-> n.uid, socket |-> "Color"] : n \in imgs }
                /\ muls = {} /\ x2s = {} /\ cols = {}
           ELSE IF last.image = None /\ last.vertex_color # None
           THEN /\ Cardinality(cols) = 1
                /\ ColorSources(m) = { [node |-> n.uid, socket |-> "Color"] : n \in cols }
                /\ muls = {} /\ x2s = {} /\ imgs = {}
           ELSE /\ Cardinality(muls) = 1
                /\ ColorSources(m) = { [node |-> n.uid, socket |-> "2"] : n \in muls }
                /\ \A mul \in muls :
                     /\ mul.blend_type = "MULTIPLY"
                     /\ mul.data_type = "RGBA"
                     /\ mul.clamp_result
                     /\ HasDefault(mul, "0", <<100000>>)
                     /\ \E img \in imgs, x2 \in x2s, col \in cols :
                          /\ SourcesOf(m, mul.uid, "6")
                                = {[node |-> img.uid, socket |-> "Color"]}
                          /\ SourcesOf(m, mul.uid, "7")
                                = {[node |-> x2.uid, socket |-> "0"]}
                          /\ x2.operation = "MULTIPLY"
                          /\ HasDefault(x2, "1", <<463262, 463262, 463262>>)
                          /\ SourcesOf(m, x2.uid, "0")
                                = {[node |-> col.uid, socket |-> "Color"]}

\* a call with both an image and a vertex colour, and one without texture alpha
C3_Witness ==
    /\ last.kind = "setup"
    /\ ~last.noop
    /\ last.image # None
    /\ last.vertex_color # None
    /\ ~last.use_texture_alpha
    /\ NodesOfType(LastMaterial, "MIX") # {}

----------------------------------------------------------------------------
(* C4 *)

\* the node types a colour source can be
ColorSourceTypes == {"TEX_IMAGE", "VERTEX_COLOR", "MIX"}

\* C4: after a call that is not the no-op case, with use_texture_alpha taken
\* as false when there is no image: without texture alpha and without mode 0
\* the colour source is linked to the output's surface input and there is no
\* mix shader and no transparent BSDF; otherwise the colour source is linked
\* to input 2 of a mix shader, a transparent BSDF to its input 1 and its
\* output to the surface input, and its factor (input 0) is the image Alpha
\* (texture alpha alone), the value 0.5 (mode 0 alone) or the output of a
\* MULTIPLY math node of the image Alpha and 0.5 (both).
C4_AlphaPathByAlphaAndMode0 ==
    (LastCalled /\ ~last.noop) =>
        LET m == LastMaterial
            use_texture_alpha == last.use_texture_alpha /\ last.image # None
            mode0 == last.use_semitransparent_mode0
            outs == NodesOfType(m, "OUTPUT_MATERIAL")
            mixs == NodesOfType(m, "MIX_SHADER")
            trs  == NodesOfType(m, "BSDF_TRANSPARENT")
            imgs == NodesOfType(m, "TEX_IMAGE")
            amuls == NodesOfType(m, "MATH")
            FromColorSource(srcs) ==
                /\ Cardinality(srcs) = 1
                /\ \A src \in srcs : NodeOf(m, src.node).type \in ColorSourceTypes
        IN /\ Cardinality(outs) = 1
           /\ \A out \in outs :
                IF ~use_texture_alpha /\ ~mode0
                THEN /\ mixs = {} /\ trs = {} /\ amuls = {}
                     /\ FromColorSource(SourcesOf(m, out.uid, "0"))
                ELSE /\ Cardinality(mixs) = 1 /\ Cardinality(trs) = 1
                     /\ \A ms \in mixs, tr \in trs :
                          /\ FromColorSource(SourcesOf(m, ms.uid, "2"))
                          /\ SourcesOf(m, ms.uid, "1")
                                = {[node |-> tr.uid, socket |-> "0"]}
                          /\ SourcesOf(m, out.uid, "0")
                                = {[node |-> ms.uid, socket |-> "0"]}
                          /\ IF use_texture_alpha /\ ~mode0
                             THEN /\ SourcesOf(m, ms.uid, "0")
                                      = { [node |-> img.uid, socket |-> "Alpha"]
                                            : img \in imgs }
                                  /\ Cardinality(imgs) = 1
                                  /\ ms.defaults = {} /\ amuls = {}
                             ELSE IF ~use_texture_alpha /\ mode0
                             THEN /\ SourcesOf(m, ms.uid, "0") = {}
                                  /\ HasDefault(ms, "0", <<50000>>)
                                  /\ amuls = {}
                             ELSE /\ Cardinality(amuls) = 1 /\ Cardinality(imgs) = 1
                                  /\ \A am \in amuls :
                                       /\ am.operation = "MULTIPLY"
                                       /\ SourcesOf(m, am.uid, "0")
                                            = { [node |-> img.uid, socket |-> "Alpha"]
                                                  : img \in imgs }
                                       /\ SourcesOf(m, am.uid, "1") = {}
                                       /\ HasDefault(am, "1", <<50000>>)
                                       /\ SourcesOf(m, ms.uid, "0")
                                            = {[node |-> am.uid, socket |-> "0"]}

\* a call asking for texture alpha without an image, in mode 0
C4_Witness ==
    /\ last.kind = "setup"
    /\ ~last.noop
    /\ last.image = None
    /\ last.use_texture_alpha
    /\ last.use_semitransparent_mode0
    /\ NodesOfType(LastMaterial, "MIX_SHADER") # {}

----------------------------------------------------------------------------
(* C5 *)

\* the materials in the slots of the mesh objects the run iterates over
UsersOf(mat) ==
    { k \in 1..Len(obs) :
        /\ obs[k].data.type = "MESH"
        /\ \E q \in 1..Len(obs[k].data.slots) : obs[k].data.slots[q] = mat }

\* a material with the identity of its nodes left out: each uid replaced by
\* the node's position in the node collection
Position(m, uid) == CHOOSE k \in 1..Len(m.nodes) : m.nodes[k].uid = uid

Canon(m) ==
    [ name |-> m.name, has_tree |-> m.has_tree, use_nodes |-> m.use_nodes,
      blend_method |-> m.blend_method,
      use_backface_culling |-> m.use_backface_culling,
      nodes |-> [k \in 1..Len(m.nodes) |-> [m.nodes[k] EXCEPT !.uid = k]],
      links |-> { [l EXCEPT !.from_node = Position(m, l.from_node),
                            !.to_node = Position(m, l.to_node)] : l \in m.links } ]

\* C5: when a run has finished, ps1ify_material has been applied exactly
\* once to every material in a slot of a processed mesh object, and the
\* material is what one application for any of the meshes using it makes of
\* the material the run started with.
C5_OncePerMaterial ==
    pc = "done" =>
        \A mat \in MaterialIds :
            UsersOf(mat) # {} =>
                /\ applied[mat] = 1
                /\ \A k \in UsersOf(mat) :
                      Canon(materials[mat])
                         = Canon(ps1ify_material(obs[k].data, before[mat]).m)

----------------------------------------------------------------------------
(* C6 *)

Modified(mat) == materials[mat] # before[mat]

InSlotOf(mat, ob) == \E q \in 1..Len(ob.data.slots) : ob.data.slots[q] = mat

\* C6 as stated: in a run a material is modified only if it is in a
\* material slot of a selected mesh object.
C6_OnlySelectedMeshMaterials ==
    \A mat \in MaterialIds :
        Modified(mat) =>
            \E k \in 1..Len(objects) :
                /\ objects[k].selected
                /\ objects[k].data.type = "MESH"
                /\ InSlotOf(mat, objects[k])

\* C6 (amended): in a run a material is modified only if it is in a
\* material slot of a mesh object among the objects the run iterates over:
\* the selected objects or, when no object is selected, all objects.
C6_OnlyIteratedMeshMaterials ==
    \A mat \in MaterialIds :
        Modified(mat) =>
            \E k \in 1..Len(objects) :
                /\ \/ objects[k].selected
                   \/ \A q \in 1..Len(objects) : ~objects[q].selected
                /\ objects[k].data.type = "MESH"
                /\ InSlotOf(mat, objects[k])

\* a run has ended with a material modified and another, in the slots of an
\* unselected or non-mesh object only, left alone
C6_Witness ==
    /\ pc = "done"
    /\ \E k \in 1..Len(objects) : objects[k].selected
    /\ \E mat \in MaterialIds : Modified(mat)
    /\ \E mat \in MaterialIds :
          /\ ~Modified(mat)
          /\ \E k \in 1..Len(objects) :
                /\ InSlotOf(mat, objects[k])
                /\ ~objects[k].selected \/ objects[k].data.type # "MESH"

----------------------------------------------------------------------------
(* C7 *)

\* the lower-cased name holds 'transparent' at some position
NameHasTransparent(name) ==
    \E k \in 1..Len(name) :
        /\ k + 10 <= Len(name)
        /\ \A q \in 1..11 : LowerChar(name[k + q - 1]) = Str_transparent[q]

\* C7: after ps1ify_material, whatever the image and the vertex colours,
\* the material was treated as semi-transparent exactly when its lower-cased
\* name contains 'transparent', blend_method is 'BLEND' if so and 'HASHED'
\* if not, and use_backface_culling is false.
C7_BlendMethodByName ==
    last.kind = "ps1ify" =>
        /\ last.use_semitransparent_mode0 = NameHasTransparent(LastMaterial.name)
        /\ LastMaterial.blend_method =
              IF NameHasTransparent(LastMaterial.name) THEN "BLEND" ELSE "HASHED"
        /\ LastMaterial.use_backface_culling = FALSE

\* a material named in capitals, without image and vertex colour, was processed
C7_Witness ==
    /\ last.kind = "ps1ify"
    /\ last.noop
    /\ LastMaterial.name = Name_TRANSPARENT_01
    /\ LastMaterial.blend_method = "BLEND"

----------------------------------------------------------------------------
(* C8 *)

\* C8: no call reads node_img, node_color or node_alpha before the call has
\* created it, for any combination of arguments: no call raises, and the
\* graph a call builds has an image node exactly when an image was given, a
\* vertex colour node exactly when vertex_color is not None, and a mix
\* shader exactly when texture alpha (with an image) or mode 0 is in use.
C8_NoUnboundNodeRead ==
    /\ ~raised
    /\ pc # "error"
    /\ (LastCalled /\ ~last.noop) =>
          /\ (NodesOfType(LastMaterial, "TEX_IMAGE") # {}) = (last.image # None)
          /\ (NodesOfType(LastMaterial, "VERTEX_COLOR") # {})
                = (last.vertex_color # None)
          /\ (NodesOfType(LastMaterial, "MIX_SHADER") # {})
                = \/ last.use_texture_alpha /\ last.image # None
                  \/ last.use_semitransparent_mode0

\* a call asked for texture alpha with a vertex colour and no image
C8_Witness ==
    /\ last.kind = "setup"
    /\ ~last.noop
    /\ last.image = None
    /\ last.vertex_color # None
    /\ last.use_texture_alpha
    /\ ~last.use_semitransparent_mode0
    /\ ~raised

----------------------------------------------------------------------------
(* C9 *)

\* C9: a ps1ify_material call that follows a ps1ify_material call for the
\* same material and the same colour attributes finds the same image and
\* leaves the same nodes, node settings and links (up to the identity of
\* the nodes), blend_method and use_backface_culling as the first left.
C9_Ps1ifyIdempotent ==
    [][(last'.kind = "ps1ify" /\ last'.repeat) =>
          /\ last'.image = last.image
          /\ Canon(materials'[last'.mat]) = Canon(materials[last'.mat])]_vars

\* a second application has rebuilt a graph with an image and a vertex colour
C9_Witness ==
    /\ last.kind = "ps1ify"
    /\ last.repeat
    /\ ~last.noop
    /\ last.image # None
    /\ last.vertex_color # None

----------------------------------------------------------------------------
(* C10 *)

\* the nodes from which a path of links leads to a node of the set
RECURSIVE ReachingNodes(_, _)
ReachingNodes(m, found) ==
    LET more == found \cup { l.from_node : l \in { x \in m.links : x.to_node \in found } }
    IN IF more = found THEN found ELSE ReachingNodes(m, more)

WellFormedGraph(m) ==
    /\ Cardinality(NodesOfType(m, "OUTPUT_MATERIAL")) = 1
    /\ \A out \in NodesOfType(m, "OUTPUT_MATERIAL") :
          /\ Cardinality({ l \in m.links : l.to_node = out.uid /\ l.to_socket = "0" }) = 1
          /\ ReachingNodes(m, {out.uid}) = NodeUids(m)
    /\ Cardinality(NodesOfType(m, "TEX_IMAGE")) <= 1
    /\ \A img \in NodesOfType(m, "TEX_IMAGE") : img.interpolation = "Closest"
    /\ Cardinality(NodesOfType(m, "VERTEX_COLOR")) <= 1
    /\ Cardinality(NodeUids(m)) = Len(m.nodes)

\* C10: a call that is not the no-op case leaves a graph with none of the
\* nodes the material had before the call, exactly one output node with
\* exactly one link into its surface input, at most one image node (with
\* interpolation 'Closest'), at most one vertex colour node, and a path of
\* links from every node to the output node.
C10_RebuiltGraphWellFormed ==
    [][(last'.kind # "none" /\ ~last'.noop) =>
          /\ NodeUids(materials'[last'.mat]) \cap NodeUids(materials[last'.mat]) = {}
          /\ WellFormedGraph(materials'[last'.mat])]_vars

\* a second call has rebuilt a graph that an earlier call had built
C10_Witness ==
    /\ last.kind = "ps1ify"
    /\ ~last.noop
    /\ last.repeat
    /\ ncalls >= 2

====
